---- MODULE Spec2Model ----
(***************************************************************************)
(* Streaming Markdown parser (packages/core): the incremental segmenter,   *)
(* the completion state machine, the key stabilizer and the image          *)
(* extractor, as a state machine over the parser's public operations.      *)
(*                                                                         *)
(* A JavaScript string is a sequence of one-character strings; an optional *)
(* value (T | null, T | undefined) is a sequence of length 0 or 1.  The    *)
(* grave accent U+0060, which a TLA+ string cannot hold, is written "~".   *)
(***************************************************************************)
EXTENDS Integers, Sequences, FiniteSets, TLC

VARIABLES
    options,               \* this.options (fixed at construction)
    state,                 \* this.state
    IMAGE_REGEX_lastIndex, \* lastIndex of the module-level /g regex
    now,                   \* the last reading of Date.now()
    snapshot,              \* the caller's list from getFragments(), as seen now
    snapshotTaken,         \* the same list as it was when returned
    snapshotShares,        \* its last element is this.state.currentFragment
    ui                     \* the UI binding that wraps the parser, if any

vars == <<options, state, IMAGE_REGEX_lastIndex, now,
          snapshot, snapshotTaken, snapshotShares, ui>>

(***************************************************************************)
(* Bounds of the model.                                                    *)
(***************************************************************************)
MaxLen == 6       \* characters fed to one parser between two resets
MaxCodeLen == 8   \* the same, for input made of fences, newlines and text only
MaxSnapLen == 3   \* the same, where the caller keeps a snapshot
MaxCodeParts == 6 \* fences, newlines and letters fed to a parser of code
MaxImageParts == 4 \* image markups and characters fed to a parser of images
MaxMarkupParts == 4 \* the same, fed to a parser of blocks that hold images
MaxLines == 2     \* lines of the buffer of a parser fed whole lines
MaxClock == 1     \* readings of Date.now() are 0..MaxClock

(***************************************************************************)
(* Characters and strings.                                                 *)
(***************************************************************************)
charCodeAt(c) ==
    CASE c = "\n" -> 10
      [] c = " " -> 32
      [] c = "!" -> 33
      [] c = "\"" -> 34
      [] c = "#" -> 35
      [] c = "(" -> 40
      [] c = ")" -> 41
      [] c = "*" -> 42
      [] c = "+" -> 43
      [] c = "-" -> 45
      [] c = "." -> 46
      [] c = "0" -> 48
      [] c = "1" -> 49
      [] c = ">" -> 62
      [] c = "[" -> 91
      [] c = "]" -> 93
      [] c = "_" -> 95
      [] c = "~" -> 96
      [] c = "a" -> 97
      [] c = "b" -> 98
      [] c = "u" -> 117
      [] c = "x" -> 120
      [] c = "|" -> 124
      [] c = "U+0161" -> 353   \* the one character U+0161, outside Latin-1

isSpace(c) == c \in {" ", "\n", "\t", "\r"}

isDigit(c) == c \in {"0", "1", "2", "3", "4", "5", "6", "7", "8", "9"}

isWordChar(c) == c \in {"a", "b", "u", "_"} \/ isDigit(c)

\* !s.trim()
isBlank(s) == \A i \in 1..Len(s) : isSpace(s[i])

startsWith(s, p) == Len(s) >= Len(p) /\ SubSeq(s, 1, Len(p)) = p

endsWith(s, p) == Len(s) >= Len(p) /\ SubSeq(s, Len(s) - Len(p) + 1, Len(s)) = p

\* s.slice(from) with a 0-based index
sliceFrom(s, from) == SubSeq(s, from + 1, Len(s))

\* s.slice(from, to) with 0-based indices, to exclusive
slice(s, from, to) == SubSeq(s, from + 1, to)

\* s.indexOf(c, from), 0-based; Len(s) stands for "not found"
RECURSIVE indexOf(_, _, _)
indexOf(s, c, from) ==
    IF from >= Len(s) \/ s[from + 1] = c THEN from ELSE indexOf(s, c, from + 1)

RECURSIVE split(_)
RECURSIVE splitAt(_, _)
\* s.split("\n")
split(s) == splitAt(s, indexOf(s, "\n", 0))

splitAt(s, i) ==
    IF i >= Len(s) THEN <<s>>
    ELSE <<SubSeq(s, 1, i)>> \o split(SubSeq(s, i + 2, Len(s)))

RECURSIVE join(_)
\* lines.join("\n")
join(ls) ==
    IF Len(ls) = 0 THEN <<>>
    ELSE IF Len(ls) = 1 THEN ls[1]
    ELSE ls[1] \o <<"\n">> \o join(Tail(ls))

DecDigit(d) == <<"0", "1", "2", "3", "4", "5", "6", "7", "8", "9">>[d + 1]

RECURSIVE toDecimal(_)
\* `${n}` for a non-negative integer
toDecimal(n) ==
    IF n < 10 THEN <<DecDigit(n)>>
    ELSE toDecimal(n \div 10) \o <<DecDigit(n % 10)>>

(***************************************************************************)
(* 32-bit arithmetic.  A word is <<high 16 bits, low 16 bits>>.            *)
(***************************************************************************)
W16 == 65536

Bit(a, k) == (a \div k) % 2

XorBit(a, b, k) == (Bit(a, k) + Bit(b, k)) % 2

XorNibble ==
    [a \in 0..15 |-> [b \in 0..15 |->
        XorBit(a, b, 1) + (2 * XorBit(a, b, 2)) + (4 * XorBit(a, b, 4))
        + (8 * XorBit(a, b, 8))]]

Xor16(a, b) ==
    XorNibble[a % 16][b % 16]
    + (16 * XorNibble[(a \div 16) % 16][(b \div 16) % 16])
    + (256 * XorNibble[(a \div 256) % 16][(b \div 256) % 16])
    + (4096 * XorNibble[a \div 4096][b \div 4096])

\* a ^ b
Xor32(a, b) == <<Xor16(a[1], b[1]), Xor16(a[2], b[2])>>

\* p * 256 + q as <<high 16 bits, low 16 bits>>, for p and q below 2^24
carry16(p, q) ==
    <<((p \div 256) + ((((p % 256) * 256) + q) \div W16)) % W16,
      (((p % 256) * 256) + q) % W16>>

\* x * y for 16-bit x and y, as <<high 16 bits, low 16 bits>>
Mul16(x, y) == carry16(x * (y \div 256), x * (y % 256))

\* Math.imul(a, b)
imul(a, b) ==
    <<(Mul16(a[2], b[2])[1] + Mul16(a[1], b[2])[2] + Mul16(a[2], b[1])[2]) % W16,
      Mul16(a[2], b[2])[2]>>

Pow2(r) == <<1, 2, 4, 8, 16, 32, 64, 128, 256, 512, 1024, 2048, 4096, 8192,
             16384, 32768, 65536>>[r + 1]

\* (x << r) | (x >>> (32 - r)) for 0 < r < 16
rotl32(x, r) ==
    <<((x[1] * Pow2(r)) % W16) + (x[2] \div Pow2(16 - r)),
      ((x[2] * Pow2(r)) % W16) + (x[1] \div Pow2(16 - r))>>

\* x >>> r for 0 < r <= 16
shr32(x, r) ==
    <<x[1] \div Pow2(r),
      ((x[1] % Pow2(r)) * Pow2(16 - r)) + (x[2] \div Pow2(r))>>

add32(a, b) ==
    <<(a[1] + b[1] + ((a[2] + b[2]) \div W16)) % W16, (a[2] + b[2]) % W16>>

HexDigit(d) == <<"0", "1", "2", "3", "4", "5", "6", "7", "8", "9",
                 "a", "b", "c", "d", "e", "f">>[d + 1]

Hex16(x) ==
    <<HexDigit(x \div 4096), HexDigit((x \div 256) % 16),
      HexDigit((x \div 16) % 16), HexDigit(x % 16)>>

RECURSIVE stripZeros(_)
stripZeros(s) == IF Len(s) > 1 /\ s[1] = "0" THEN stripZeros(Tail(s)) ELSE s

\* (h >>> 0).toString(16)
toHex(h) == stripZeros(Hex16(h[1]) \o Hex16(h[2]))

RECURSIVE padStart(_, _, _)
\* s.padStart(n, c)
padStart(s, n, c) == IF Len(s) >= n THEN s ELSE padStart(<<c>> \o s, n, c)

(***************************************************************************)
(* utils/hash                                                              *)
(***************************************************************************)
byteAt(key, i) == charCodeAt(key[i + 1]) % 256

c1 == <<52382, 11601>>   \* 0xcc9e2d51
c2 == <<7047, 13715>>    \* 0x1b873593

mixK(k) == imul(rotl32(imul(k, c1), 15), c2)

\* the four characters of a block, as a word
block(key, i) ==
    <<byteAt(key, i + 2) + (256 * byteAt(key, i + 3)),
      byteAt(key, i) + (256 * byteAt(key, i + 1))>>

RECURSIVE murmurBlocks(_, _, _, _)
\* the loop over the blocks of four characters
murmurBlocks(key, i, bytes, h1) ==
    IF i < bytes
    THEN CHOOSE h \in {murmurBlocks(key, i + 4, bytes, mixed) : mixed \in
             {add32(imul(rotl32(Xor32(h1, mixK(block(key, i))), 13), <<0, 5>>),
                    <<58964, 27492>>)}} : TRUE
    ELSE h1

\* the switch over the remaining characters
murmurTail(key, i, remainder, h1) ==
    IF remainder = 0 THEN h1
    ELSE Xor32(h1, mixK(
             <<IF remainder = 3 THEN byteAt(key, i + 2) ELSE 0,
               ((IF remainder >= 2 THEN byteAt(key, i + 1) ELSE 0) * 256)
               + byteAt(key, i)>>))

\* h ^= h >>> r
xorShift(h, r) == Xor32(h, shr32(h, r))

\* the finalization mix
fmix(h, len) ==
    xorShift(
        imul(xorShift(
                 imul(xorShift(Xor32(h, <<len \div W16, len % W16>>), 16),
                      <<34283, 51819>>),
                 13),
             <<49842, 44597>>),
        16)

\* murmurHash3(key, seed = 0) of a string value
murmurOf(key) ==
    padStart(
        toHex(fmix(murmurTail(key, Len(key) - (Len(key) % 4), Len(key) % 4,
                              murmurBlocks(key, 0, Len(key) - (Len(key) % 4),
                                           <<0, 0>>)),
                   Len(key))),
        8, "0")

murmurHash3(key) == CHOOSE h \in {murmurOf(k) : k \in {key}} : TRUE

RECURSIVE djb2Loop(_, _, _)
djb2Loop(key, i, hash) ==
    IF i < Len(key)
    THEN CHOOSE h \in {djb2Loop(key, i + 1, next) : next \in
             {add32(add32(imul(hash, <<0, 32>>), hash),
                    <<0, charCodeAt(key[i + 1])>>)}} : TRUE
    ELSE hash

djb2(key) == CHOOSE h \in {toHex(djb2Loop(k, 0, <<0, 5381>>)) : k \in {key}} : TRUE

\* generateFragmentKey with the clock reading left in the stable key as well
generateFragmentKey_timed(content, index, isComplete, algorithm, t) ==
    IF isComplete
    THEN <<"f", "r", "a", "g", "-">>
         \o (IF algorithm = "murmur3" THEN murmurHash3(content) ELSE djb2(content))
         \o <<"-">> \o toDecimal(t)
    ELSE <<"t", "e", "m", "p", "-">> \o toDecimal(index) \o <<"-">>
         \o toDecimal(Len(content)) \o <<"-">> \o toDecimal(t)

generateFragmentKey(content, index, isComplete, algorithm, t) ==
    IF isComplete
    THEN <<"f", "r", "a", "g", "-">>
         \o (IF algorithm = "murmur3" THEN murmurHash3(content) ELSE djb2(content))
    ELSE <<"t", "e", "m", "p", "-">> \o toDecimal(index) \o <<"-">>
         \o toDecimal(Len(content)) \o <<"-">> \o toDecimal(t)

(***************************************************************************)
(* parser.ts: block patterns.  Every regex is modelled by the matcher it   *)
(* denotes; a match result is an optional record.  Intermediate results    *)
(* are passed on as parameters.                                            *)
(***************************************************************************)
FENCE == <<"~", "~", "~">>

TEMP == <<"t", "e", "m", "p", "-">>

\* the character classes the patterns use
inClass(c, class) ==
    CASE class = "\\s" -> isSpace(c)
      [] class = "\\w" -> isWordChar(c)
      [] class = "\\d" -> isDigit(c)
      [] class = "[^\\]]" -> c # "]"
      [] class = "[^\\s)]" -> ~isSpace(c) /\ c # ")"
      [] class = "[^\"]" -> c # "\""
      [] OTHER -> c = class

RECURSIVE runLength(_, _, _)
\* the length of the longest run of characters of a class from 0-based i
runLength(s, i, class) ==
    IF i < Len(s) /\ inClass(s[i + 1], class)
    THEN 1 + runLength(s, i + 1, class)
    ELSE 0

\* startPattern of codeblock: three grave accents at the start of the line
codeblockStart(line) == startsWith(line, FENCE)

\* group 1 of that pattern: the word characters after the fence
fenceLang(line) == slice(line, 3, 3 + runLength(line, 3, "\\w"))

\* line.match of the fence pattern, then match?.[1] || ''
fenceLangOrEmpty(line) == IF codeblockStart(line) THEN fenceLang(line) ELSE <<>>

\* the heading pattern after k "#" and w white-space characters
headingAfterSpace(line, k, w) ==
    IF w < 1 THEN <<>>
    ELSE IF Len(line) - k - w >= 1
    THEN <<[level |-> k, content |-> sliceFrom(line, k + w)]>>
    ELSE IF w >= 2
    THEN <<[level |-> k, content |-> sliceFrom(line, k + w - 1)]>>
    ELSE <<>>

headingAfterHashes(line, k) ==
    IF k < 1 \/ k > 6 THEN <<>>
    ELSE headingAfterSpace(line, k, runLength(line, k, "\\s"))

\* startPattern of heading: one to six "#", white space, then the rest
\* (at least one character): <<>> or <<[level, content]>>
headingMatch(line) == headingAfterHashes(line, runLength(line, 0, "#"))

isBullet(c) == c \in {"-", "*", "+"}

\* the list pattern after w white-space characters and d digits
listAfterDigits(line, w, d) ==
    /\ d >= 1
    /\ w + d + 1 < Len(line)
    /\ line[w + d + 1] = "."
    /\ isSpace(line[w + d + 2])

listAfterSpace(line, w) ==
    \/ /\ w + 1 < Len(line)
       /\ isBullet(line[w + 1])
       /\ isSpace(line[w + 2])
    \/ listAfterDigits(line, w, runLength(line, w, "\\d"))

\* startPattern of list: white space, then a bullet or digits and ".",
\* then a white-space character
listStart(line) == listAfterSpace(line, runLength(line, 0, "\\s"))

\* startPattern of blockquote: ">" at the start of the line
blockquoteStart(line) == Len(line) >= 1 /\ line[1] = ">"

thematicAfterRun(line, k) ==
    k >= 3 /\ k + runLength(line, k, "\\s") = Len(line)

\* startPattern of thematicBreak: three or more of one of "-", "*", "_",
\* then white space to the end of the line
thematicBreakStart(line) ==
    \E c \in {"-", "*", "_"} : thematicAfterRun(line, runLength(line, 0, c))

\* startPattern of paragraph: not blank, and the first character is none of
\* "#", ">", grave accent, "-", "|"
paragraphStart(line) ==
    /\ ~isBlank(line)
    /\ line[1] \notin {"#", ">", "~", "-", "|"}

BLOCK_PATTERNS ==
    << [type |-> "codeblock", isSingleLine |-> FALSE],
       [type |-> "heading", isSingleLine |-> TRUE],
       [type |-> "list", isSingleLine |-> FALSE],
       [type |-> "blockquote", isSingleLine |-> FALSE],
       [type |-> "thematicBreak", isSingleLine |-> TRUE],
       [type |-> "paragraph", isSingleLine |-> FALSE] >>

\* p.startPattern.test(line)
startPatternTest(type, line) ==
    CASE type = "codeblock" -> codeblockStart(line)
      [] type = "heading" -> headingMatch(line) # <<>>
      [] type = "list" -> listStart(line)
      [] type = "blockquote" -> blockquoteStart(line)
      [] type = "thematicBreak" -> thematicBreakStart(line)
      [] type = "paragraph" -> paragraphStart(line)

RECURSIVE findFrom(_, _)
findFrom(line, i) ==
    IF i > Len(BLOCK_PATTERNS) THEN <<>>
    ELSE IF startPatternTest(BLOCK_PATTERNS[i].type, line)
    THEN <<BLOCK_PATTERNS[i]>>
    ELSE findFrom(line, i + 1)

RECURSIVE findBack(_, _)
findBack(line, i) ==
    IF i < 1 THEN <<>>
    ELSE IF startPatternTest(BLOCK_PATTERNS[i].type, line)
    THEN <<BLOCK_PATTERNS[i]>>
    ELSE findBack(line, i - 1)

\* the last pattern of BLOCK_PATTERNS that matches, not the first
findPattern_last(line) == findBack(line, Len(BLOCK_PATTERNS))

\* BLOCK_PATTERNS.find(p => p.startPattern.test(line)) : <<>> or <<pattern>>
findPattern(line) == findFrom(line, 1)

(***************************************************************************)
(* IMAGE_REGEX (global flag): "![" alt "](" src, an optional title in      *)
(* double quotes after white space, and ")"; alt holds no "]", src is not  *)
(* empty and holds neither white space nor ")", the title holds no quote.  *)
(* Indices are 0-based.                                                    *)
(***************************************************************************)
\* ")" at k, with no title
imageClose(s, k) ==
    IF k < Len(s) /\ s[k + 1] = ")"
    THEN <<[end |-> k + 1, title |-> <<>>]>>
    ELSE <<>>

\* the title from the quote at q to the quote at e, then ")"
imageTitle(s, k, q, e) ==
    IF e + 1 < Len(s) /\ s[e + 1] = "\"" /\ s[e + 2] = ")"
    THEN <<[end |-> e + 2, title |-> <<slice(s, q + 1, e)>>]>>
    ELSE imageClose(s, k)

\* after the src, which ends at k; the white space after it ends at q
imageAfterSpace(s, k, q) ==
    IF q > k /\ q < Len(s) /\ s[q + 1] = "\""
    THEN imageTitle(s, k, q, q + 1 + runLength(s, q + 1, "[^\"]"))
    ELSE imageClose(s, k)

\* <<>> or <<[end, title]>>
imageTail(s, k) == imageAfterSpace(s, k, k + runLength(s, k, "\\s"))

imageResult(s, i, j, k, tail) ==
    IF tail = <<>> THEN <<>>
    ELSE <<[index |-> i, end |-> tail[1].end,
            alt |-> slice(s, i + 2, j),
            src |-> slice(s, j + 2, k),
            title |-> tail[1].title]>>

\* the src runs from j + 2 to k
imageSrc(s, i, j, k) ==
    IF k = j + 2 THEN <<>> ELSE imageResult(s, i, j, k, imageTail(s, k))

\* the alt runs from i + 2 to j
imageAlt(s, i, j) ==
    IF j + 1 < Len(s) /\ s[j + 1] = "]" /\ s[j + 2] = "("
    THEN imageSrc(s, i, j, j + 2 + runLength(s, j + 2, "[^\\s)]"))
    ELSE <<>>

\* a match starting exactly at i: <<>> or <<[index, end, alt, src, title]>>
imageMatchAt(s, i) ==
    IF i + 1 < Len(s) /\ s[i + 1] = "!" /\ s[i + 2] = "["
    THEN imageAlt(s, i, i + 2 + runLength(s, i + 2, "[^\\]]"))
    ELSE <<>>

RECURSIVE imageSearch(_, _)
RECURSIVE imageSearchNext(_, _, _)
\* the leftmost match starting at i or later
imageSearch(s, i) ==
    IF i >= Len(s) THEN <<>> ELSE imageSearchNext(s, i, imageMatchAt(s, i))

imageSearchNext(s, i, match) ==
    IF match # <<>> THEN match ELSE imageSearch(s, i + 1)

\* IMAGE_REGEX.exec(s) with IMAGE_REGEX.lastIndex = from: the match, or <<>>
imageExec(s, from) == IF from > Len(s) THEN <<>> ELSE imageSearch(s, from)

\* the lastIndex a call of exec or test leaves behind
lastIndexAfter(match) == IF match = <<>> THEN 0 ELSE match[1].end

(***************************************************************************)
(* parser.ts: StreamingParser.  The private methods act on a world         *)
(* w = [st |-> this.state, re |-> IMAGE_REGEX.lastIndex]; t is the reading *)
(* of Date.now() during the call.  A fragment is a record [key, type,      *)
(* rawContent, isComplete, data, position]; its meta field (timestamps,    *)
(* provenance only) is left out.                                           *)
(***************************************************************************)
InitialState ==
    [buffer |-> <<>>, fragments |-> <<>>, currentFragment |-> <<>>,
     position |-> 0, line |-> 1, column |-> 1, lastProcessedLineIndex |-> 0]

DefaultOptions ==
    [incompleteCodeStrategy |-> "line", hashAlgorithm |-> "murmur3",
     preloadImages |-> FALSE]

NL == <<"\n">>

\* s.lastIndexOf("\n") + 1: the 1-based place of the last newline, or 0
RECURSIVE lastNewline(_, _)
lastNewline(text, i) ==
    IF i = 0 \/ text[i] = "\n" THEN i ELSE lastNewline(text, i - 1)

newlines(text) == Cardinality({i \in 1..Len(text) : text[i] = "\n"})

advancePosition(w, text) ==
    [w EXCEPT !.st.position = @ + Len(text),
              !.st.line = @ + newlines(text),
              !.st.column = IF newlines(text) = 0 THEN @ + Len(text)
                            ELSE 1 + (Len(text) - lastNewline(text, Len(text)))]

\* createFragment(partial, index); index ?? this.state.fragments.length is
\* resolved by the caller
createFragment(w, type, rawContent, isComplete, data, fragIndex, t) ==
    [key |-> generateFragmentKey(rawContent, fragIndex, isComplete,
                                 options.hashAlgorithm, t),
     type |-> type,
     rawContent |-> rawContent,
     isComplete |-> isComplete,
     data |-> data,
     position |-> [start |-> w.st.position,
                   end |-> w.st.position + Len(rawContent),
                   line |-> w.st.line,
                   column |-> w.st.column]]

\* the data of a heading with the level fixed at 1
headingData_flat(content, match) ==
    [level |-> 1,
     content |-> IF match # <<>> THEN match[1].content ELSE content]

headingData(content, match) ==
    [level |-> IF match # <<>> THEN match[1].level ELSE 1,
     content |-> IF match # <<>> THEN match[1].content ELSE content]

\* the data createInitialData returns
createInitialData(w, type, content) ==
    CASE type = "heading" -> headingData(content, headingMatch(content))
      [] type = "codeblock" ->
           [lang |-> fenceLangOrEmpty(content), code |-> <<>>, lines |-> <<>>]
      [] type = "paragraph" ->
           [content |-> content,
            hasInlineImages |-> imageExec(content, w.re) # <<>>]
      [] OTHER -> [content |-> content, level |-> 1]

\* the IMAGE_REGEX.lastIndex createInitialData leaves behind
createInitialDataLastIndex(w, type, content) ==
    IF type = "paragraph" THEN lastIndexAfter(imageExec(content, w.re)) ELSE w.re

RECURSIVE imageParts(_, _)
RECURSIVE imagePartsOf(_, _, _)
\* the parts the exec loop of splitImages pushes, from lastIndex
imageParts(content, lastIndex) ==
    imagePartsOf(content, lastIndex, imageExec(content, lastIndex))

imagePartsOf(content, lastIndex, match) ==
    IF match = <<>>
    THEN IF lastIndex < Len(content)
         THEN <<[type |-> "text", content |-> sliceFrom(content, lastIndex)]>>
         ELSE <<>>
    ELSE (IF match[1].index > lastIndex
          THEN <<[type |-> "text",
                  content |-> slice(content, lastIndex, match[1].index)]>>
          ELSE <<>>)
         \o <<[type |-> "image",
               content |-> slice(content, match[1].index, match[1].end),
               data |-> [alt |-> match[1].alt, src |-> match[1].src,
                        title |-> match[1].title]]>>
         \o imageParts(content, match[1].end)

\* parts.filter(part => part.type === 'image' || part.content.trim())
keptParts(parts) ==
    SelectSeq(parts, LAMBDA part : part.type = "image" \/ ~isBlank(part.content))

hasImage(parts) == \E i \in 1..Len(parts) : parts[i].type = "image"

\* the map of splitImages keying every part by the content of the container
partFragments_whole(w, fragment, kept, t) ==
    [i \in 1..Len(kept) |->
        [createFragment(w,
            IF kept[i].type = "image" THEN "image" ELSE fragment.type,
            kept[i].content,
            fragment.isComplete,
            IF kept[i].type = "image" THEN kept[i].data
            ELSE [content |-> kept[i].content, hasInlineImages |-> FALSE],
            i - 1, t)
         EXCEPT !.key = generateFragmentKey(fragment.rawContent, i - 1,
                                            fragment.isComplete,
                                            options.hashAlgorithm, t)]]

\* the map of splitImages giving every part the type of the container
partFragments_untyped(w, fragment, kept, t) ==
    [i \in 1..Len(kept) |->
        createFragment(w,
            fragment.type,
            kept[i].content,
            fragment.isComplete,
            IF kept[i].type = "image" THEN kept[i].data
            ELSE [content |-> kept[i].content, hasInlineImages |-> FALSE],
            i - 1, t)]

\* .map((part, index) => this.createFragment(...))
partFragments(w, fragment, kept, t) ==
    [i \in 1..Len(kept) |->
        createFragment(w,
            IF kept[i].type = "image" THEN "image" ELSE fragment.type,
            kept[i].content,
            fragment.isComplete,
            IF kept[i].type = "image" THEN kept[i].data
            ELSE [content |-> kept[i].content, hasInlineImages |-> FALSE],
            i - 1, t)]

splitImagesOf(w, fragment, parts, t) ==
    IF ~hasImage(parts) THEN <<fragment>>
    ELSE partFragments(w, fragment, keptParts(parts), t)

\* the fragments splitImages returns (it leaves IMAGE_REGEX.lastIndex = 0)
splitImages(w, fragment, t) ==
    splitImagesOf(w, fragment, imageParts(fragment.rawContent, 0), t)

\* this.state.fragments.push(...imageFragments) or push(fragment)
pushSplit(w, fragment, imageFragments) ==
    [w EXCEPT !.st.fragments = IF hasImage(imageFragments)
                               THEN @ \o imageFragments
                               ELSE Append(@, fragment),
              !.re = 0]

\* the image step applied to a fragment of any type
pushFragment_any(w, fragment, t) ==
    pushSplit(w, fragment, splitImages(w, fragment, t))

\* the image step of finalizeCurrentFragment and startNewFragmentFromLine
pushFragment(w, fragment, t) ==
    IF fragment.type \in {"paragraph", "blockquote"}
    THEN pushSplit(w, fragment, splitImages(w, fragment, t))
    ELSE [w EXCEPT !.st.fragments = Append(@, fragment)]

\* fragment.position.end = this.state.position, if the fragment is empty
endFixed(fragment, position) ==
    IF fragment.position.end = fragment.position.start
    THEN [fragment EXCEPT !.position.end = position]
    ELSE fragment

\* keyFixed without the regeneration of the key
keyFixed_stale(fragment, index, t) == fragment

\* the stable key, if the fragment is complete and its key temporary
keyFixed(fragment, index, t) ==
    IF fragment.isComplete /\ startsWith(fragment.key, TEMP)
    THEN [fragment EXCEPT !.key = generateFragmentKey(
              fragment.rawContent, index, TRUE, options.hashAlgorithm, t)]
    ELSE fragment

\* the current fragment after the in-place updates of finalizeCurrentFragment
stabilized(w, t) ==
    keyFixed(endFixed(w.st.currentFragment[1], w.st.position),
             Len(w.st.fragments), t)

\* clearCurrent without this.state.currentFragment = null
clearCurrent_kept(w) == w

clearCurrent(w) == [w EXCEPT !.st.currentFragment = <<>>]

finalizeCurrentFragment(w, t) ==
    IF w.st.currentFragment = <<>> THEN w
    ELSE clearCurrent(pushFragment(w, stabilized(w, t), t))

\* updateCodeBlockData marking every line record complete
updateCodeBlockData_done(w, line, isIncomplete) ==
    [w EXCEPT !.st.currentFragment[1].data.code =
                  @ \o (IF @ # <<>> THEN NL ELSE <<>>) \o line,
              !.st.currentFragment[1].data.lines =
                  IF options.incompleteCodeStrategy = "line"
                  THEN Append(@, [content |-> line,
                                  lineNumber |-> Len(@) + 1,
                                  isComplete |-> TRUE])
                  ELSE @]

updateCodeBlockData(w, line, isIncomplete) ==
    [w EXCEPT !.st.currentFragment[1].data.code =
                  @ \o (IF @ # <<>> THEN NL ELSE <<>>) \o line,
              !.st.currentFragment[1].data.lines =
                  IF options.incompleteCodeStrategy = "line"
                  THEN Append(@, [content |-> line,
                                  lineNumber |-> Len(@) + 1,
                                  isComplete |-> ~isIncomplete])
                  ELSE @]

\* lines.slice(1, -1) with a closing fence, lines.slice(1) without
codeLines(lines) ==
    IF Len(lines) >= 2 /\ lines[Len(lines)] = FENCE
    THEN SubSeq(lines, 2, Len(lines) - 1)
    ELSE SubSeq(lines, 2, Len(lines))

\* data.lines without a last record holding the fence
popFence(records) ==
    IF Len(records) > 0 /\ records[Len(records)].content = FENCE
    THEN SubSeq(records, 1, Len(records) - 1)
    ELSE records

allComplete(records) ==
    [i \in 1..Len(records) |-> [records[i] EXCEPT !.isComplete = TRUE]]

finalizeCodeBlockOf(w, lines) ==
    [w EXCEPT !.st.currentFragment[1].data =
        [lang |-> fenceLangOrEmpty(lines[1]),
         code |-> join(codeLines(lines)),
         lines |-> allComplete(popFence(@.lines))]]

finalizeCodeBlock(w) ==
    finalizeCodeBlockOf(w, split(w.st.currentFragment[1].rawContent))

\* continueCodeBlock closing on a fence line that is the unterminated tail too
continueCodeBlock_tail(w, line, isIncomplete, t) ==
    IF line = FENCE
    THEN advancePosition(
             finalizeCurrentFragment(
                 finalizeCodeBlock(
                     [w EXCEPT !.st.currentFragment[1].rawContent = @ \o NL \o line,
                               !.st.currentFragment[1].isComplete = TRUE]),
                 t),
             NL \o line)
    ELSE advancePosition(
             updateCodeBlockData(
                 [w EXCEPT !.st.currentFragment[1].rawContent =
                     (IF endsWith(@, NL) THEN @ ELSE @ \o NL) \o line],
                 line, isIncomplete),
             NL \o line)

continueCodeBlock(w, line, isIncomplete, t) ==
    IF line = FENCE /\ ~isIncomplete
    THEN advancePosition(
             finalizeCurrentFragment(
                 finalizeCodeBlock(
                     [w EXCEPT !.st.currentFragment[1].rawContent = @ \o NL \o line,
                               !.st.currentFragment[1].isComplete = TRUE]),
                 t),
             NL \o line)
    ELSE advancePosition(
             updateCodeBlockData(
                 [w EXCEPT !.st.currentFragment[1].rawContent =
                     (IF endsWith(@, NL) THEN @ ELSE @ \o NL) \o line],
                 line, isIncomplete),
             NL \o line)

continueList(w, line, isIncomplete, t) ==
    IF isBlank(line) /\ ~isIncomplete
    THEN advancePosition(
             finalizeCurrentFragment(
                 [w EXCEPT !.st.currentFragment[1].isComplete = TRUE], t),
             NL)
    ELSE advancePosition(
             advancePosition(
                 [w EXCEPT !.st.currentFragment[1].rawContent = @ \o NL \o line],
                 NL),
             line)

continueBlockquote(w, line, isIncomplete, t) ==
    IF isBlank(line) /\ ~isIncomplete
    THEN advancePosition(
             finalizeCurrentFragment(
                 [w EXCEPT !.st.currentFragment[1].isComplete = TRUE], t),
             NL)
    ELSE advancePosition(
             advancePosition(
                 [w EXCEPT !.st.currentFragment[1].rawContent = @ \o NL \o line],
                 NL),
             line)

\* continueDefaultBlock that moves the cursor over the line and does not
\* add it to the block
continueDefaultBlock_dropped(w, line, isIncomplete, t) ==
    IF isBlank(line) /\ ~isIncomplete
    THEN advancePosition(
             finalizeCurrentFragment(
                 [w EXCEPT !.st.currentFragment[1].isComplete = TRUE], t),
             NL)
    ELSE advancePosition(advancePosition(w, NL), line)

continueDefaultBlock(w, line, isIncomplete, t) ==
    IF isBlank(line) /\ ~isIncomplete
    THEN advancePosition(
             finalizeCurrentFragment(
                 [w EXCEPT !.st.currentFragment[1].isComplete = TRUE], t),
             NL)
    ELSE advancePosition(
             advancePosition(
                 [w EXCEPT !.st.currentFragment[1].rawContent = @ \o NL \o line],
                 NL),
             line)

continueFragment(w, line, isIncomplete, t) ==
    CASE w.st.currentFragment[1].type = "codeblock" ->
           continueCodeBlock(w, line, isIncomplete, t)
      [] w.st.currentFragment[1].type = "list" ->
           continueList(w, line, isIncomplete, t)
      [] w.st.currentFragment[1].type = "blockquote" ->
           continueBlockquote(w, line, isIncomplete, t)
      [] OTHER -> continueDefaultBlock(w, line, isIncomplete, t)

shouldContinueFragment(fragment, line, isCompleteLine) ==
    IF fragment.type \in {"heading", "thematicBreak"} THEN FALSE
    ELSE IF fragment.type = "codeblock" THEN TRUE
    ELSE ~(isBlank(line) /\ isCompleteLine)

\* advancePosition(line), and advancePosition("\n") unless the line is the tail
advanceLine(w, line, isIncomplete) ==
    IF isIncomplete THEN advancePosition(w, line)
    ELSE advancePosition(advancePosition(w, line), NL)

\* the end of startNewFragmentFromLine: confirm the fragment or make it current
placeFragment(w, line, isIncomplete, shouldComplete, fragment, t) ==
    IF shouldComplete
    THEN advanceLine(pushFragment(w, fragment, t), line, FALSE)
    ELSE advanceLine([w EXCEPT !.st.currentFragment = <<fragment>>],
                     line, isIncomplete)

startTyped(w, line, isIncomplete, type, shouldComplete, t) ==
    placeFragment(
        [w EXCEPT !.re = createInitialDataLastIndex(w, type, line)],
        line, isIncomplete, shouldComplete,
        createFragment(w, type, line, shouldComplete,
                       createInitialData(w, type, line),
                       Len(w.st.fragments), t),
        t)

\* startPattern completing a single-line block on an unterminated line too
startPattern_eager(w, line, isIncomplete, pattern, t) ==
    startTyped(w, line, isIncomplete,
               IF pattern # <<>> THEN pattern[1].type ELSE "paragraph",
               pattern # <<>> /\ pattern[1].isSingleLine,
               t)

\* pattern?.type || 'paragraph' and pattern?.isSingleLine ?? false
startPattern(w, line, isIncomplete, pattern, t) ==
    startTyped(w, line, isIncomplete,
               IF pattern # <<>> THEN pattern[1].type ELSE "paragraph",
               (pattern # <<>> /\ pattern[1].isSingleLine) /\ ~isIncomplete,
               t)

\* startNewFragmentFromLine turning down a line that matches no pattern
startNewFragmentFromLine_strict(w, line, isIncomplete, t) ==
    IF isBlank(line)
    THEN IF w.st.currentFragment # <<>>
            /\ w.st.currentFragment[1].type = "codeblock"
         THEN continueFragment(w, line, isIncomplete, t)
         ELSE advanceLine(w, line, isIncomplete)
    ELSE IF findPattern(line) = <<>>
    THEN advanceLine(w, line, isIncomplete)
    ELSE startPattern(w, line, isIncomplete, findPattern(line), t)

\* startNewFragmentFromLine without the test for a blank line
startNewFragmentFromLine_blank(w, line, isIncomplete, t) ==
    startPattern(w, line, isIncomplete, findPattern(line), t)

startNewFragmentFromLine(w, line, isIncomplete, t) ==
    IF isBlank(line)
    THEN IF w.st.currentFragment # <<>>
            /\ w.st.currentFragment[1].type = "codeblock"
         THEN continueFragment(w, line, isIncomplete, t)
         ELSE advanceLine(w, line, isIncomplete)
    ELSE startPattern(w, line, isIncomplete, findPattern(line), t)

\* endCurrent without the isComplete = true of the blank-line case
endCurrent_unmarked(w, line, isCompleteLine, t) ==
    IF w.st.currentFragment = <<>> THEN w
    ELSE finalizeCurrentFragment(w, t)

\* the branch of the loop that ends the current fragment, if there is one
endCurrent(w, line, isCompleteLine, t) ==
    IF w.st.currentFragment = <<>> THEN w
    ELSE finalizeCurrentFragment(
             IF isBlank(line) /\ isCompleteLine
             THEN [w EXCEPT !.st.currentFragment[1].isComplete = TRUE]
             ELSE w,
             t)

\* a fragment that was ended by a blank line starts nothing
startAfter(w, hadCurrent, line, isCompleteLine, t) ==
    IF hadCurrent /\ isBlank(line) THEN w
    ELSE startNewFragmentFromLine(w, line, ~isCompleteLine, t)

\* one iteration of the loop of parseIncremental
parseLine(w, line, isCompleteLine, t) ==
    IF w.st.currentFragment # <<>>
       /\ shouldContinueFragment(w.st.currentFragment[1], line, isCompleteLine)
    THEN continueFragment(w, line, ~isCompleteLine, t)
    ELSE startAfter(endCurrent(w, line, isCompleteLine, t),
                    w.st.currentFragment # <<>>, line, isCompleteLine, t)

\* the index of the last complete line, 0-based
\* lastCompleteIndex that takes the line before an unterminated one for
\* unterminated too
lastCompleteIndex_short(buffer, lines) ==
    IF endsWith(buffer, NL) THEN Len(lines) - 1 ELSE Len(lines) - 3

lastCompleteIndex(buffer, lines) ==
    IF endsWith(buffer, NL) THEN Len(lines) - 1 ELSE Len(lines) - 2

RECURSIVE parseLines(_, _, _, _, _)
parseLines(w, lines, i, last, t) ==
    IF i < Len(lines)
    THEN CHOOSE parsed \in {parseLines(next, lines, i + 1, last, t) : next \in
             {parseLine(w, lines[i + 1], i <= last, t)}} : TRUE
    ELSE w

parseLinesOf(w, lines, t) ==
    parseLines(w, lines, 0, lastCompleteIndex(w.st.buffer, lines), t)

\* parseIncremental that keeps the fragments of the parse before
parseIncremental_kept(w, t) ==
    parseLinesOf([w EXCEPT !.st.currentFragment = <<>>,
                           !.st.position = 0,
                           !.st.line = 1,
                           !.st.column = 1],
                 split(w.st.buffer), t)

parseIncremental(w, t) ==
    parseLinesOf([w EXCEPT !.st.fragments = <<>>,
                           !.st.currentFragment = <<>>,
                           !.st.position = 0,
                           !.st.line = 1,
                           !.st.column = 1],
                 split(w.st.buffer), t)

\* appendChunk without the early return on an empty chunk
appendChunk_reparse(w, chunk, t) ==
    parseIncremental([w EXCEPT !.st.buffer = @ \o chunk], t)

\* appendChunk(chunk)
appendChunk(w, chunk, t) ==
    IF chunk = <<>> THEN w
    ELSE parseIncremental([w EXCEPT !.st.buffer = @ \o chunk], t)

\* getFragments()
getFragments(st) == st.fragments \o st.currentFragment

\* the loop of finalize over this.state.fragments
restabilize(fragments, t) ==
    [i \in 1..Len(fragments) |-> keyFixed(fragments[i], i - 1, t)]

\* the re-keying loop of finalize
finalizeKeys(w, t) == [w EXCEPT !.st.fragments = restabilize(@, t)]

\* finalize without currentFragment.isComplete = true
finalize_unmarked(w, t) == finalizeKeys(finalizeCurrentFragment(w, t), t)

\* finalize(), up to its return
finalize(w, t) ==
    finalizeKeys(
        finalizeCurrentFragment(
            IF w.st.currentFragment # <<>>
            THEN [w EXCEPT !.st.currentFragment[1].isComplete = TRUE]
            ELSE w,
            t),
        t)

\* isComplete()
isComplete(st) ==
    /\ st.currentFragment = <<>>
    /\ \A i \in 1..Len(st.fragments) : st.fragments[i].isComplete

\* getBufferLength()
getBufferLength(st) == Len(st.buffer)

\* reset()
reset(w) == [w EXCEPT !.st = InitialState]

(***************************************************************************)
(* The parser as a state machine.  A caller appends chunks, finalizes and  *)
(* resets in any order; Date.now() never goes back.  snapshot is the last  *)
(* array getFragments returned as its holder sees it now, snapshotTaken    *)
(* the same array as it was when returned, and snapshotShares tells that   *)
(* its last element is the very object this.state.currentFragment holds.   *)
(***************************************************************************)
IMG == <<"!", "[", "]", "(", "u", ")">>

Chunks == {<<"a">>, <<"\n">>, <<"#", " ">>, <<"-", " ">>, <<">", " ">>, FENCE, IMG}

World == [st |-> state, re |-> IMAGE_REGEX_lastIndex]

\* the options explored: the defaults, and the other value of both options.
\* hashAlgorithm is read by the key generation alone and
\* incompleteCodeStrategy by updateCodeBlockData alone, which tests it
\* against 'line' only, so that 'char' acts as 'none'.
Options ==
    {DefaultOptions,
     [DefaultOptions EXCEPT !.hashAlgorithm = "djb2",
                            !.incompleteCodeStrategy = "none"]}

\* the parser is used on its own, no binding wraps it
Unbound ==
    [binding |-> "none", content |-> <<>>, lastLength |-> 0,
     isStreaming |-> FALSE, streamingTimer |-> FALSE]

\* new StreamingParser(options)
Init ==
    /\ options \in Options
    /\ state = InitialState
    /\ IMAGE_REGEX_lastIndex = 0
    /\ now = 0
    /\ snapshot = <<>>
    /\ snapshotTaken = <<>>
    /\ snapshotShares = FALSE
    /\ ui = Unbound

\* the characters of input that is followed further than MaxLen
CodeChars == {"~", "\n", "a"}

\* the inputs explored: any of at most max characters, and those of code
\* characters alone of at most codeMax characters
fits(input, max, codeMax) ==
    \/ Len(input) <= max
    \/ /\ Len(input) <= codeMax
       /\ \A i \in 1..Len(input) : input[i] \in CodeChars

\* parser.appendChunk(chunk), the buffer kept within the inputs explored
AppendChunk(max, codeMax) ==
    \E chunk \in Chunks \cup {<<>>} : \E t \in now..MaxClock :
        /\ fits(state.buffer \o chunk, max, codeMax)
        /\ chunk = <<>> => t = now
        /\ \E w \in {appendChunk(World, chunk, t)} :
              /\ state' = w.st
              /\ IMAGE_REGEX_lastIndex' = w.re
        /\ now' = t
        /\ snapshotShares' = (snapshotShares /\ chunk = <<>>)
        /\ UNCHANGED <<options, snapshot, snapshotTaken, ui>>

\* the array a holder of getFragments' result sees once finalize has written
\* isComplete, the key and the end position into the shared current fragment
mutatedSnapshot(held, w, t) ==
    [held EXCEPT ![Len(held)] =
        stabilized([w EXCEPT !.st.currentFragment[1].isComplete = TRUE], t)]

\* parser.finalize()
Finalize ==
    /\ \E w \in {finalize(World, now)} :
          /\ state' = w.st
          /\ IMAGE_REGEX_lastIndex' = w.re
    /\ snapshot' = IF snapshotShares /\ state.currentFragment # <<>>
                   THEN mutatedSnapshot(snapshot, World, now)
                   ELSE snapshot
    /\ snapshotShares' = FALSE
    /\ UNCHANGED <<options, now, snapshotTaken, ui>>

\* parser.reset()
Reset ==
    /\ state' = reset(World).st
    /\ snapshotShares' = FALSE
    /\ UNCHANGED <<options, IMAGE_REGEX_lastIndex, now, snapshot, snapshotTaken, ui>>

\* const held = parser.getFragments()
GetFragments ==
    /\ snapshot' = getFragments(state)
    /\ snapshotTaken' = getFragments(state)
    /\ snapshotShares' = (state.currentFragment # <<>>)
    /\ UNCHANGED <<options, state, IMAGE_REGEX_lastIndex, now, ui>>

Next == AppendChunk(MaxLen, MaxCodeLen) \/ Finalize \/ Reset

Spec == Init /\ [][Next]_vars

\* the chunks of input that is code: a fence, a letter, a newline
CodeChunks == {FENCE, <<"a">>, NL}

\* the chunks of input that holds images: a letter, a space, a newline, an
\* image markup, a blockquote marker
ImageChunks == {<<"a">>, <<" ">>, NL, IMG, <<">", " ">>}

occurrences(input, c) == Cardinality({i \in 1..Len(input) : input[i] = c})

\* the length of the input, a fence and an image markup counted as one part
parts(input) ==
    Len(input) - (2 * (occurrences(input, "~") \div 3))
               - (5 * occurrences(input, "!"))

\* parser.appendChunk(chunk) with a chunk of the given kind, the buffer
\* kept within max parts
AppendParts(chunks, max) ==
    \E chunk \in chunks \cup {<<>>} : \E t \in now..MaxClock :
        /\ parts(state.buffer \o chunk) <= max
        /\ chunk = <<>> => t = now
        /\ \E w \in {appendChunk(World, chunk, t)} :
              /\ state' = w.st
              /\ IMAGE_REGEX_lastIndex' = w.re
        /\ now' = t
        /\ snapshotShares' = (snapshotShares /\ chunk = <<>>)
        /\ UNCHANGED <<options, snapshot, snapshotTaken, ui>>

AppendCode == AppendParts(CodeChunks, MaxCodeParts)

AppendImage == AppendParts(ImageChunks, MaxImageParts)

NextCode == AppendCode \/ Finalize \/ Reset

\* a parser fed code
SpecCode == Init /\ [][NextCode]_vars

NextImage == AppendImage \/ Finalize \/ Reset

\* a parser fed paragraphs and blockquotes with images
SpecImage == Init /\ [][NextImage]_vars

HR == <<"-", "-", "-">>

MarkupChunks == {IMG, NL, <<"#", " ">>, <<"-", " ">>, FENCE, HR}

AppendMarkup == AppendParts(MarkupChunks, MaxMarkupParts)

NextMarkup == AppendMarkup \/ Finalize \/ Reset

\* a parser fed image markup in paragraphs, headings, lists and code
SpecMarkup == Init /\ [][NextMarkup]_vars

\* lines of every kind of block, lines that look like one and are none, a
\* line of one character outside Latin-1, and a line of white space
Lines ==
    { <<"a">>,
      <<"#", " ", "a">>, <<"#", "#", "#", "#", "#", "#", " ", "a">>,
      <<"#", "#", "#", "#", "#", "#", "#", " ", "a">>, <<"#", "x">>,
      <<"-", " ", "a">>, <<" ", "-", " ", "a">>, <<"-", "x">>,
      <<">", " ", "a">>,
      HR, <<"*", "*", "*">>,
      FENCE \o <<"a">>,
      <<"|", "a", "|">>,
      <<"U+0161">>,
      <<" ">> }

\* at most max lines, each of them one of Lines or empty
lineInput(lines, max) ==
    /\ Len(lines) <= max
    /\ \A k \in 1..Len(lines) : lines[k] \in Lines \cup {<<>>}

\* parser.appendChunk(chunk) with a whole line or a newline
AppendLine ==
    \E chunk \in Lines \cup {NL, <<>>} : \E t \in now..MaxClock :
        /\ lineInput(split(state.buffer \o chunk), MaxLines)
        /\ chunk = <<>> => t = now
        /\ \E w \in {appendChunk(World, chunk, t)} :
              /\ state' = w.st
              /\ IMAGE_REGEX_lastIndex' = w.re
        /\ now' = t
        /\ snapshotShares' = (snapshotShares /\ chunk = <<>>)
        /\ UNCHANGED <<options, snapshot, snapshotTaken, ui>>

NextLines == AppendLine \/ Finalize \/ Reset

\* a parser fed whole lines
SpecLines == Init /\ [][NextLines]_vars

NextSnap == AppendChunk(MaxSnapLen, 0) \/ Finalize \/ Reset \/ GetFragments

SpecSnap == Init /\ [][NextSnap]_vars

(***************************************************************************)
(* The UI bindings (React hook, Vue composable and component, Angular      *)
(* service and component).  Each wraps one parser and is handed the whole  *)
(* content each time it changes; ui.content is the content value handed    *)
(* over last, ui.lastLength the length the binding remembers,              *)
(* ui.streamingTimer tells that the 100 ms timeout is pending.             *)
(***************************************************************************)
MaxContentLen == 2 \* characters of a content value

Bindings == {"react", "vue", "angular"}

\* the content values: the texts of 'a' and 'b' of at most MaxContentLen characters
Contents == UNION {[1..n -> {"a", "b"}] : n \in 0..MaxContentLen}

\* the binding right after it is set up, with empty content
Bound(binding) ==
    [binding |-> binding, content |-> <<>>, lastLength |-> 0,
     isStreaming |-> FALSE, streamingTimer |-> FALSE]

\* the test for append mode: currentLength >= prevLength &&
\* content.startsWith(content.slice(0, prevLength))
appendMode(content, prevLength) ==
    /\ Len(content) >= prevLength
    /\ startsWith(content, slice(content, 0, prevLength))

\* the test of the other branch: an else if in the React hook and in the Vue
\* composable, a plain else in the others
resetMode(binding, content, prevLength) ==
    CASE binding = "react" -> Len(content) < prevLength
      [] binding = "vue" ->
           \/ Len(content) < prevLength
           \/ ~startsWith(content, slice(content, 0, prevLength))
      [] OTHER -> TRUE

\* append mode: the new part of the content goes to the parser, isStreaming
\* is set and the timeout is started anew
appendContent(u, w, content, newChunk, t) ==
    IF newChunk = <<>> THEN [u |-> [u EXCEPT !.content = content], w |-> w]
    ELSE [u |-> [u EXCEPT !.content = content,
                          !.lastLength = Len(content),
                          !.isStreaming = TRUE,
                          !.streamingTimer = TRUE],
          w |-> appendChunk(w, newChunk, t)]

\* reset mode: the parser is reset and given the whole content
resetContent(u, w, content, t) ==
    [u |-> [u EXCEPT !.content = content, !.lastLength = Len(content)],
     w |-> appendChunk(reset(w), content, t)]

\* the body of the effect, of the watcher, of appendContent, of ngOnChanges
processContent(u, w, content, t) ==
    IF appendMode(content, u.lastLength)
    THEN appendContent(u, w, content, sliceFrom(content, u.lastLength), t)
    ELSE IF resetMode(u.binding, content, u.lastLength)
         THEN resetContent(u, w, content, t)
         ELSE [u |-> [u EXCEPT !.content = content], w |-> w]

\* the clean-up of the React effect, run before the effect runs again: it
\* clears the timeout; the other bindings have none
cleanUp(u) ==
    IF u.binding = "react" THEN [u EXCEPT !.streamingTimer = FALSE] ELSE u

\* a binding is set up around a new parser
InitUI ==
    /\ options = DefaultOptions
    /\ state = InitialState
    /\ IMAGE_REGEX_lastIndex = 0
    /\ now = 0
    /\ snapshot = <<>>
    /\ snapshotTaken = <<>>
    /\ snapshotShares = FALSE
    /\ ui \in {Bound(binding) : binding \in Bindings}

\* the content changes (the Angular service is handed any content, also the
\* same again) and the binding processes it
SetContent ==
    \E content \in Contents :
        /\ content # ui.content \/ ui.binding = "angular"
        /\ \E r \in {processContent(cleanUp(ui), World, content, now)} :
              /\ ui' = r.u
              /\ state' = r.w.st
              /\ IMAGE_REGEX_lastIndex' = r.w.re
        /\ UNCHANGED <<options, now, snapshot, snapshotTaken, snapshotShares>>

\* the pending timeout fires
TimerFires ==
    /\ ui.streamingTimer
    /\ ui' = [ui EXCEPT !.isStreaming = FALSE, !.streamingTimer = FALSE]
    /\ UNCHANGED <<options, state, IMAGE_REGEX_lastIndex, now,
                   snapshot, snapshotTaken, snapshotShares>>

\* StreamingParserService.reset(); it leaves the timeout alone
ServiceReset ==
    /\ ui.binding = "angular"
    /\ state' = reset(World).st
    /\ ui' = [ui EXCEPT !.lastLength = 0, !.isStreaming = FALSE]
    /\ UNCHANGED <<options, IMAGE_REGEX_lastIndex, now,
                   snapshot, snapshotTaken, snapshotShares>>

NextUI == SetContent \/ TimerFires \/ ServiceReset

\* a binding that is handed content values
SpecUI == InitUI /\ [][NextUI]_vars

\* the same, where a pending timeout fires in the end
SpecUILive == SpecUI /\ WF_vars(TimerFires)

(***************************************************************************)
(* Properties.  A step that makes the buffer longer is an appendChunk with *)
(* a non-empty chunk; a step that does not make it shorter is no reset of  *)
(* a parser that holds fragments.                                          *)
(***************************************************************************)
FRAG == <<"f", "r", "a", "g", "-">>

appended == Len(state'.buffer) > Len(state.buffer)

notReset == Len(state'.buffer) >= Len(state.buffer)

keysKept(old, new) ==
    \A i \in 1..Len(old) :
        startsWith(old[i].key, FRAG) =>
            (i <= Len(new) /\ new[i].key = old[i].key)

\* C1: once getFragments has returned a fragment with a frag- key, an
\* appendChunk leaves the fragment at that index with the identical key.
C1_MonotonicKeyStability ==
    [][appended => keysKept(getFragments(state), getFragments(state'))]_vars

completionKept(old, new) ==
    \A i \in 1..Len(old) :
        old[i].isComplete => (i <= Len(new) /\ new[i].isComplete)

\* C2: a fragment reported complete is reported complete at the same index
\* after every later appendChunk and finalize, until reset.
C2_CompletionTerminal ==
    [][notReset => completionKept(getFragments(state), getFragments(state'))]_vars

\* a terminated blank line that comes after some line of text
blankLineAfterText(lines) ==
    \E k \in 1..(Len(lines) - 1) :
        /\ isBlank(lines[k])
        /\ \E j \in 1..(k - 1) : ~isBlank(lines[j])

openUntilBlank(fragments, buffer) ==
    \A i \in 1..Len(fragments) :
        (fragments[i].type \in {"paragraph", "list", "blockquote"}
             /\ fragments[i].isComplete)
            => blankLineAfterText(split(buffer))

\* C3: after appendChunk a paragraph, list or blockquote fragment is
\* complete only if the buffer holds a terminated blank line after it; a
\* buffer ending with the newline of its last text line leaves it open.
C3_OpenUntilBlankLine ==
    [][appended => openUntilBlank(getFragments(state'), state'.buffer)]_vars

openOnlyLast(fragments) ==
    \A i \in 1..Len(fragments) :
        ~fragments[i].isComplete => i = Len(fragments)

\* C4: in every reachable state getFragments holds at most one fragment
\* that is not complete, it is the last one, and every confirmed fragment
\* is complete.
C4_SingleOpen ==
    /\ openOnlyLast(getFragments(state))
    /\ \A i \in 1..Len(state.fragments) : state.fragments[i].isComplete

C4_Witness ==
    /\ state.currentFragment # <<>>
    /\ ~state.currentFragment[1].isComplete
    /\ Len(state.fragments) >= 1
    /\ state.fragments[1].type = "paragraph"
    /\ state.currentFragment[1].type = "codeblock"

hashOf(content) ==
    IF options.hashAlgorithm = "murmur3" THEN murmurHash3(content)
    ELSE djb2(content)

keyClassOk(fragment) ==
    IF fragment.isComplete
    THEN fragment.key = FRAG \o hashOf(fragment.rawContent)
    ELSE startsWith(fragment.key, TEMP)

\* C5: in every reachable state a complete fragment's key is frag- followed
\* by the configured hash of its current rawContent, and a fragment that
\* is not complete has a temp- key.
C5_KeyClass ==
    \A i \in 1..Len(getFragments(state)) : keyClassOk(getFragments(state)[i])

C5_Witness ==
    /\ options.hashAlgorithm = "djb2"
    /\ state.currentFragment # <<>>
    /\ \E i \in 1..Len(state.fragments) : state.fragments[i].type = "heading"

\* a new parser fed the input as one chunk at clock 0 and finalized
freshRun(input) ==
    finalize(appendChunk([st |-> InitialState, re |-> 0], input, 0), 0)

sameKeys(a, b) ==
    /\ Len(a) = Len(b)
    /\ \A i \in 1..Len(a) : a[i].key = b[i].key

sameContentSameKey(a, b) ==
    \A i \in 1..Len(a) : \A j \in 1..Len(b) :
        a[i].rawContent = b[j].rawContent => a[i].key = b[j].key

sameRun(a, b) == sameKeys(a, b) /\ sameContentSameKey(a, b)

\* C6: this parser, whatever chunks, clock readings, finalize and reset
\* calls lie behind it, finalized now, and a new parser with the same
\* options fed the same input at once and finalized, return sequences of
\* equal length with pairwise equal keys, and equal rawContent gives equal
\* keys across the two.
C6_Determinism ==
    \A here \in {finalize(World, now).st.fragments} :
        \A fresh \in {freshRun(state.buffer).st.fragments} :
            sameRun(here, fresh)

C6_Witness ==
    /\ now = 1
    /\ IMAGE_REGEX_lastIndex # 0
    /\ state.currentFragment # <<>>
    /\ Len(state.fragments) >= 1

\* a temp- key whose contentLength component is the length of rawContent
lengthInKey(fragment) ==
    \E index \in 0..(MaxLen + MaxCodeLen) : \E t \in 0..MaxClock :
        fragment.key = generateFragmentKey(fragment.rawContent, index, FALSE,
                                           options.hashAlgorithm, t)

grown ==
    /\ appended
    /\ state.currentFragment # <<>>
    /\ state'.currentFragment # <<>>
    /\ Len(state'.fragments) = Len(state.fragments)
    /\ Len(state'.currentFragment[1].rawContent)
           # Len(state.currentFragment[1].rawContent)

\* C7: an appendChunk that changes the length of the open fragment's
\* rawContent changes its temp key, whatever the clock reads, and the
\* contentLength component of the key is the current length of rawContent.
C7_Volatility ==
    [][grown => (state'.currentFragment[1].key # state.currentFragment[1].key
                    /\ lengthInKey(state'.currentFragment[1]))]_vars

allStable(fragments) ==
    \A i \in 1..Len(fragments) :
        fragments[i].isComplete /\ startsWith(fragments[i].key, FRAG)

nothingOpen(w) ==
    /\ allStable(getFragments(w.st))
    /\ isComplete(w.st)
    /\ w.st.currentFragment = <<>>

\* C8: from every reachable state finalize returns only complete fragments
\* with frag- keys and leaves no fragment open, and an appendChunk of the
\* empty chunk after it changes nothing of that.
C8_FinalizePostcondition ==
    \A finalized \in {finalize(World, now)} :
        /\ nothingOpen(finalized)
        /\ nothingOpen(appendChunk(finalized, <<>>, now))

C8_Witness ==
    /\ state.currentFragment = <<>>
    /\ state.buffer # <<>>
    /\ ~endsWith(state.buffer, NL)
    /\ Len(state.fragments) >= 2
    /\ state.fragments[Len(state.fragments)].type = "paragraph"

\* C9: from every reachable state a second finalize, at the same or a later
\* clock reading, returns the sequence the first finalize returned.
C9_FinalizeIdempotent ==
    \A first \in {finalize(World, now)} : \A t \in now..MaxClock :
        getFragments(finalize(first, t).st) = getFragments(first.st)

C9_Witness ==
    /\ state.currentFragment # <<>>
    /\ state.currentFragment[1].type = "codeblock"
    /\ Len(state.currentFragment[1].data.lines) >= 2
    /\ now = 0

\* C10: an array getFragments returned stays as it was returned, whatever
\* appendChunk, finalize and reset calls follow.
C10_SnapshotIsolation == snapshot = snapshotTaken

\* a parser right after construction, before any input
Constructed == [st |-> InitialState, re |-> 0]

\* the parser with the state of w answers every further chunk as a parser
\* right after construction does
behavesAsConstructed(w) ==
    \A chunk \in Chunks : \A t \in now..MaxClock :
        appendChunk(w, chunk, t).st = appendChunk(Constructed, chunk, t).st

\* C11: reset() restores the initial state from every reachable state:
\* getFragments() is empty, getBufferLength() is 0, no fragment is open, the
\* cursors are (0, 1, 1), and the parser then behaves as one just constructed.
C11_ResetRestores ==
    \A w \in {reset(World)} :
        /\ getFragments(w.st) = <<>>
        /\ getBufferLength(w.st) = 0
        /\ w.st.currentFragment = <<>>
        /\ w.st.position = 0 /\ w.st.line = 1 /\ w.st.column = 1
        /\ behavesAsConstructed(w)

\* C12: appendChunk('') is a no-op in every state, right after finalize
\* included: buffer, confirmed fragments, open fragment, cursors, the fragment
\* count and every key stay as they are.
C12_EmptyChunkNoOp ==
    \A t \in now..MaxClock : \A w \in {appendChunk(World, <<>>, t)} :
        /\ w = World
        /\ Len(getFragments(w.st)) = Len(getFragments(state))
        /\ \A i \in 1..Len(getFragments(state)) :
               getFragments(w.st)[i].key = getFragments(state)[i].key

\* right after finalize: the tail of the buffer is an unterminated line, yet
\* nothing is open and the last fragment is complete
C12_Witness ==
    /\ state.buffer # <<>>
    /\ ~endsWith(state.buffer, NL)
    /\ state.currentFragment = <<>>
    /\ state.fragments # <<>>
    /\ state.fragments[Len(state.fragments)].isComplete

\* C13: key uniqueness: in every snapshot getFragments() or finalize()
\* returns, no two fragments have the same key, also when two blocks or two
\* images have the same source text.
C13_KeyUniqueness ==
    \A i, j \in 1..Len(getFragments(state)) :
        getFragments(state)[i].key = getFragments(state)[j].key => i = j

\* the buffer starts with an opening fence line
fenceOpened(buffer) == codeblockStart(split(buffer)[1])

\* a line after the first, followed by a newline, is the fence marker
closingLine(lines) == \E k \in 2..(Len(lines) - 1) : lines[k] = FENCE

closingRule(st) ==
    /\ getFragments(st)[1].type = "codeblock"
    /\ getFragments(st)[1].isComplete <=> closingLine(split(st.buffer))

\* C14: a codeblock becomes complete during appendChunk exactly when the
\* buffer holds, after the opening fence line, a newline-terminated line equal
\* to the fence marker; a fence line that is the unterminated tail of the
\* buffer does not close the block, whatever the chunking.
C14_ClosingRule ==
    [][appended /\ fenceOpened(state'.buffer) => closingRule(state')]_vars

\* a block closed by a terminated fence line, with nothing after it
C14_Witness ==
    /\ fenceOpened(state.buffer)
    /\ endsWith(state.buffer, NL \o FENCE \o NL)
    /\ Len(state.fragments) = 1
    /\ state.fragments[1].type = "codeblock"
    /\ state.fragments[1].isComplete
    /\ state.currentFragment = <<>>

\* an opening fence line, then N >= 1 newline-terminated lines none of which
\* is the fence marker, and nothing else
openCodeLines(lines) ==
    /\ Len(lines) >= 3
    /\ codeblockStart(lines[1])
    /\ lines[Len(lines)] = <<>>
    /\ \A k \in 2..(Len(lines) - 1) : lines[k] # FENCE

\* the records of the code lines of such a buffer, all terminated
terminatedRecords(lines) ==
    [i \in 1..(Len(lines) - 2) |->
        [content |-> lines[i + 1], lineNumber |-> i, isComplete |-> TRUE]]

oneOpenCodeblock(st) ==
    /\ Len(getFragments(st)) = 1
    /\ getFragments(st)[1].type = "codeblock"
    /\ ~getFragments(st)[1].isComplete

\* C15: after appendChunk of an opening fence line followed by N
\* newline-terminated code lines and nothing else, getFragments() holds one
\* open codeblock whose line records are exactly the N records
\* {content: i-th code line, lineNumber: i, isComplete: true}.
C15_TerminatedLineRecords ==
    [][appended /\ openCodeLines(split(state'.buffer))
                /\ options.incompleteCodeStrategy = "line"
       => /\ oneOpenCodeblock(state')
          /\ getFragments(state')[1].data.lines
                 = terminatedRecords(split(state'.buffer))]_vars

\* the open fragment is a codeblock and records its lines
openCodeblock ==
    /\ state.currentFragment # <<>>
    /\ state.currentFragment[1].type = "codeblock"
    /\ options.incompleteCodeStrategy = "line"

\* line numbers 1..n in order, every record before the last complete, and the
\* last one incomplete while its line is the unterminated tail of the buffer
recordsInOrder(records, buffer) ==
    /\ \A i \in 1..Len(records) : records[i].lineNumber = i
    /\ \A i \in 1..(Len(records) - 1) : records[i].isComplete
    /\ (Len(records) > 0 /\ ~endsWith(buffer, NL))
           => ~records[Len(records)].isComplete

recordsClosed(records) ==
    /\ \A i \in 1..Len(records) : records[i].isComplete
    /\ Len(records) > 0 => records[Len(records)].content # FENCE

\* C17: whenever a codeblock fragment is complete, by a terminated closing
\* fence or forced by finalize(), all of its line records have
\* isComplete = true and no line record holds the closing-fence line.
C17_CompleteBlockRecords ==
    \A i \in 1..Len(getFragments(state)) :
        (/\ getFragments(state)[i].type = "codeblock"
         /\ getFragments(state)[i].isComplete)
            => recordsClosed(getFragments(state)[i].data.lines)

\* data.lang and data.code as rawContent gives them
recomputed(fragment, lines) ==
    /\ fragment.data.lang = fenceLang(lines[1])
    /\ fragment.data.code = join(codeLines(lines))

\* C18: on every transition of a codeblock to complete, by the closing fence
\* or by finalize(), its data is recomputed from rawContent: data.lang is the
\* language token of the opening fence line, data.code the lines of rawContent
\* after the opening fence, without a final closing-fence line, joined by "\n".
C18_CompleteBlockData ==
    \A i \in 1..Len(getFragments(state)) :
        (/\ getFragments(state)[i].type = "codeblock"
         /\ getFragments(state)[i].isComplete)
            => recomputed(getFragments(state)[i],
                          split(getFragments(state)[i].rawContent))

\* text is the buffer, up to the newline that ends its last line
verbatim(text, buffer) == text = buffer \/ text \o NL = buffer

\* the only fragment is the open codeblock that starts the buffer
codeblockFromStart ==
    /\ fenceOpened(state.buffer)
    /\ state.fragments = <<>>
    /\ state.currentFragment # <<>>
    /\ state.currentFragment[1].type = "codeblock"

\* C19: blank lines inside a codeblock are preserved verbatim: rawContent is
\* the exact buffer substring from the opening fence through its last line,
\* so every interior blank line, also several in a row or one directly after
\* the opening fence, appears in rawContent and in data.code.
C19_BlankLinesVerbatim ==
    codeblockFromStart
        => /\ verbatim(state.currentFragment[1].rawContent, state.buffer)
           /\ Len(split(state.buffer)) >= 2
                  => verbatim(split(state.buffer)[1] \o NL
                                  \o state.currentFragment[1].data.code,
                              state.buffer)

\* In the inputs of SpecImage every "!" starts the markup IMG, whose alt is
\* empty, whose src is "u" and which has no title.
hasMarkup(text) == indexOf(text, "!", 0) < Len(text)

RECURSIVE markupSpans(_, _)
RECURSIVE markupSpansAt(_, _, _)
\* the text spans and the image markups of text, in source order
markupSpans(text, type) == markupSpansAt(text, type, indexOf(text, "!", 0))

markupSpansAt(text, type, i) ==
    IF i >= Len(text)
    THEN IF text = <<>> THEN <<>> ELSE <<[type |-> type, rawContent |-> text]>>
    ELSE (IF i > 0 THEN <<[type |-> type, rawContent |-> slice(text, 0, i)]>>
          ELSE <<>>)
         \o <<[type |-> "image", rawContent |-> IMG]>>
         \o markupSpans(sliceFrom(text, i + Len(IMG)), type)

\* the images and the spans that hold more than white space
visibleSpans(spans) ==
    SelectSeq(spans, LAMBDA span : span.type = "image" \/ ~isBlank(span.rawContent))

typedContent(fragments) ==
    [i \in 1..Len(fragments) |->
        [type |-> fragments[i].type, rawContent |-> fragments[i].rawContent]]

imagesComplete(fragments) ==
    \A i \in 1..Len(fragments) :
        fragments[i].type = "image"
            => /\ fragments[i].isComplete
               /\ fragments[i].data = [alt |-> <<>>, src |-> <<"u">>, title |-> <<>>]

\* the open paragraph or blockquote holds image markup and this step
\* completes it
containerCompletes ==
    /\ state.currentFragment # <<>>
    /\ state.currentFragment[1].type \in {"paragraph", "blockquote"}
    /\ hasMarkup(state.currentFragment[1].rawContent)
    /\ state'.currentFragment = <<>>
    /\ state'.buffer \in {state.buffer, state.buffer \o NL}

\* the last line of the buffer, the unterminated one
lastLine(buffer) == split(buffer)[Len(split(buffer))]

\* the content the container completes with: what the open fragment holds,
\* and, when the newline appended ends a line of white space only, what it
\* held before that line, which is the blank line that ends the container
completedContent(text, buffer, after) ==
    IF after # buffer /\ isBlank(lastLine(buffer))
    THEN slice(text, 0, Len(text) - (Len(lastLine(buffer)) + 1))
    ELSE text

\* the fragments from 1-based index from on
fragmentsFrom(fragments, from) == SubSeq(fragments, from, Len(fragments))

RECURSIVE concatRaw(_)
\* the rawContent of the fragments, concatenated in order
concatRaw(fragments) ==
    IF fragments = <<>> THEN <<>>
    ELSE fragments[1].rawContent \o concatRaw(Tail(fragments))

\* C21: the image partition is lossless: every non-empty text span, also one
\* of spaces or a newline only, becomes a fragment and only zero-length spans
\* are dropped, so the rawContent of the sub-fragments concatenated in order
\* is the rawContent of the paragraph or blockquote they replace.
C21_LosslessPartition ==
    [][containerCompletes
       => concatRaw(fragmentsFrom(state'.fragments, Len(state.fragments) + 1))
              = completedContent(state.currentFragment[1].rawContent,
                                 state.buffer, state'.buffer)]_vars

\* every image fragment is complete and has a stable key
imagesStable(fragments) ==
    \A i \in 1..Len(fragments) :
        fragments[i].type = "image"
            => fragments[i].isComplete /\ startsWith(fragments[i].key, FRAG)

\* markup in the last line of the buffer stays in the open fragment
markupStaysOpen(st) ==
    (st.currentFragment # <<>> /\ hasMarkup(lastLine(st.buffer)))
        => endsWith(st.currentFragment[1].rawContent, lastLine(st.buffer))

\* the type of a first line that starts a heading, a list or a codeblock
unsplitType(line) ==
    IF startsWith(line, FENCE) THEN <<"codeblock">>
    ELSE IF startsWith(line, <<"#", " ">>) /\ Len(line) > 2 THEN <<"heading">>
    ELSE IF startsWith(line, <<"-", " ">>) THEN <<"list">>
    ELSE <<>>

\* a heading, list or codeblock that starts the buffer with markup in its
\* first line is the first fragment, markup included
markupStaysInBlock(st, line) ==
    (unsplitType(line) # <<>> /\ hasMarkup(line))
        => /\ getFragments(st) # <<>>
           /\ getFragments(st)[1].type = unsplitType(line)[1]
           /\ startsWith(getFragments(st)[1].rawContent, line)

\* C22: image extraction runs only on a just-completed paragraph or
\* blockquote: every fragment of type image is complete with a frag- key,
\* image markup in a still-open fragment stays in that one open fragment, and
\* image markup in headings, lists and codeblocks is never split out.
C22_ExtractionOnlyOnCompletion ==
    /\ imagesStable(getFragments(state))
    /\ markupStaysOpen(state)
    /\ markupStaysInBlock(state, split(state.buffer)[1])

\* a completed heading with markup, in one piece
C22_Witness ==
    /\ state.currentFragment = <<>>
    /\ Len(state.fragments) = 1
    /\ state.fragments[1].type = "heading"
    /\ state.fragments[1].isComplete
    /\ hasMarkup(state.fragments[1].rawContent)

\* the key of the image a parser just constructed gives for the markup alone
bareImageKey(markup) ==
    appendChunk(Constructed, markup \o NL, 0).st.fragments[1].key

\* C23: the stable key of an image fragment depends on its own matched markup
\* only: paragraphs or blockquotes that embed the same markup in different
\* text, in this parser or in another one, give image fragments with the same
\* key.
C23_ImageKeyIndependence ==
    \A i \in 1..Len(state.fragments) :
        state.fragments[i].type = "image"
            => /\ state.fragments[i].key = bareImageKey(state.fragments[i].rawContent)
               /\ \A j \in 1..Len(state.fragments) :
                      (/\ state.fragments[j].type = "image"
                       /\ state.fragments[j].rawContent = state.fragments[i].rawContent)
                          => state.fragments[j].key = state.fragments[i].key

\* an image taken out of a paragraph with text before it
C23_Witness ==
    /\ Len(state.fragments) >= 2
    /\ state.fragments[1].type = "paragraph"
    /\ state.fragments[1].rawContent = <<"a">>
    /\ state.fragments[2].type = "image"
    /\ state.fragments[2].key = bareImageKey(IMG)

\* the type of a heading or thematic-break line, if the line is one
singleLineType(line) ==
    IF headingMatch(line) # <<>> THEN <<"heading">>
    ELSE IF thematicBreakStart(line) THEN <<"thematicBreak">>
    ELSE <<>>

\* line k starts a block: it is the first line or follows a blank line, and
\* no fence was opened before it
startsBlock(lines, k) ==
    /\ k = 1 \/ isBlank(lines[k - 1])
    /\ \A j \in 1..(k - 1) : ~codeblockStart(lines[j])

\* a complete fragment of the type with this line as rawContent and a stable key
emittedComplete(st, line, type) ==
    \E i \in 1..Len(st.fragments) :
        /\ st.fragments[i].type = type
        /\ st.fragments[i].rawContent = line
        /\ st.fragments[i].isComplete
        /\ startsWith(st.fragments[i].key, FRAG)

\* the open fragment is of the type, holds this line and has a temp key
openTentative(st, line, type) ==
    /\ st.currentFragment # <<>>
    /\ st.currentFragment[1].type = type
    /\ st.currentFragment[1].rawContent = line
    /\ ~st.currentFragment[1].isComplete
    /\ startsWith(st.currentFragment[1].key, TEMP)
    /\ \A i \in 1..Len(st.fragments) : st.fragments[i].isComplete

singleLineRule(st, lines) ==
    \A k \in 1..Len(lines) :
        (singleLineType(lines[k]) # <<>> /\ startsBlock(lines, k))
            => IF k < Len(lines)
               THEN emittedComplete(st, lines[k], singleLineType(lines[k])[1])
               ELSE openTentative(st, lines[k], singleLineType(lines[k])[1])

\* C24: a heading or thematic-break line that starts a block is emitted
\* complete with a stable key as soon as a newline follows it in the buffer,
\* and is the single open fragment with a temp key exactly while it is the
\* unterminated tail of the buffer.
C24_SingleLineBlocks ==
    [][appended => singleLineRule(state', split(state'.buffer))]_vars

\* a thematic break emitted complete by the newline after it
C24_Witness ==
    /\ endsWith(state.buffer, NL)
    /\ emittedComplete(state, HR, "thematicBreak")
    /\ state.currentFragment = <<>>

\* the type of the first rule the line matches, in the fixed order, and
\* paragraph for a line that matches none
firstMatch(line) ==
    IF codeblockStart(line) THEN "codeblock"
    ELSE IF headingMatch(line) # <<>> THEN "heading"
    ELSE IF listStart(line) THEN "list"
    ELSE IF blockquoteStart(line) THEN "blockquote"
    ELSE IF thematicBreakStart(line) THEN "thematicBreak"
    ELSE "paragraph"

\* a fragment of the type that starts with the line
startedAs(fragments, line, type) ==
    \E i \in 1..Len(fragments) :
        fragments[i].type = type /\ startsWith(fragments[i].rawContent, line)

classified(st, lines) ==
    /\ ~isBlank(lines[1])
           => /\ getFragments(st) # <<>>
              /\ getFragments(st)[1].type = firstMatch(lines[1])
              /\ startsWith(getFragments(st)[1].rawContent, lines[1])
    /\ \A k \in 2..Len(lines) :
           (~isBlank(lines[k]) /\ startsBlock(lines, k))
               => startedAs(getFragments(st), lines[k], firstMatch(lines[k]))

\* C25: classification is total and first-match-wins: a non-blank line that
\* starts a new fragment gets the type of the first matching rule in the
\* order codeblock, heading, list, blockquote, thematic break, paragraph, and
\* a line that matches no reserved pattern is a paragraph.
C25_FirstMatchWins ==
    [][appended => classified(state', split(state'.buffer))]_vars

\* a line that matches both the list and the paragraph rule, taken as a list
C25_Witness ==
    /\ Len(getFragments(state)) = 1
    /\ getFragments(state)[1].type = "list"
    /\ getFragments(state)[1].rawContent = <<" ", "-", " ", "a">>

nonBlankLines(lines) == Cardinality({k \in 1..Len(lines) : ~isBlank(lines[k])})

\* no fragment but a codeblock starts with a blank line
noBlankStart(fragments) ==
    \A i \in 1..Len(fragments) :
        fragments[i].type # "codeblock"
            => ~isBlank(split(fragments[i].rawContent)[1])

\* C26: blank lines never start a fragment: outside an open codeblock a line
\* that is empty or white space only, terminated or not, creates no fragment,
\* and a buffer of blank lines only has no fragments, whatever the chunking
\* and after finalize() too.
C26_BlankLinesStartNothing ==
    /\ Len(getFragments(state)) <= nonBlankLines(split(state.buffer))
    /\ noBlankStart(getFragments(state))
    /\ nonBlankLines(split(state.buffer)) = 0 => getFragments(state) = <<>>

\* a buffer of a line of white space, a newline and white space again
C26_Witness ==
    /\ state.buffer = <<" ", "\n", " ">>
    /\ getFragments(state) = <<>>

\* position.start is the offset in the buffer where the fragment's first
\* line stands, and line and column are those of that offset, from 1
positionOf(fragment, buffer) ==
    /\ fragment.position.start <= Len(buffer)
    /\ startsWith(sliceFrom(buffer, fragment.position.start),
                  split(fragment.rawContent)[1])
    /\ fragment.position.line
           = 1 + newlines(slice(buffer, 0, fragment.position.start))
    /\ fragment.position.column
           = 1 + (fragment.position.start
                  - lastNewline(buffer, fragment.position.start))

\* C27: for every fragment in every snapshot, position.start is the buffer
\* offset of the first character of its rawContent and position.line and
\* position.column are the 1-based line and column of that offset, also after
\* a multi-line paragraph, list, blockquote or codeblock and for the
\* sub-fragments of image splitting.
C27_PositionCorrect ==
    \A i \in 1..Len(getFragments(state)) :
        positionOf(getFragments(state)[i], state.buffer)

\* the number of "#" the line starts with
hashes(line) == runLength(line, 0, "#")

\* one to six "#", a space, and a text that starts with a visible character
headingLine(line) ==
    /\ hashes(line) \in 1..6
    /\ Len(line) >= hashes(line) + 2
    /\ line[hashes(line) + 1] = " "
    /\ ~isSpace(line[hashes(line) + 2])

\* the buffer is one terminated heading line
headingBuffer(lines) ==
    Len(lines) = 2 /\ lines[2] = <<>> /\ headingLine(lines[1])

oneHeading(st, line) ==
    /\ Len(getFragments(st)) = 1
    /\ getFragments(st)[1].type = "heading"
    /\ getFragments(st)[1].isComplete
    /\ getFragments(st)[1].data
           = [level |-> hashes(line), content |-> sliceFrom(line, hashes(line) + 1)]
    /\ startsWith(getFragments(st)[1].key, FRAG)

\* C28: a terminated heading line of k "#" (1 <= k <= 6), white space and a
\* text T yields exactly one complete fragment of type heading with data
\* {level: k, content: T} and a key that starts with frag-.
C28_HeadingData ==
    [][(appended /\ headingBuffer(split(state'.buffer)))
       => oneHeading(state', split(state'.buffer)[1])]_vars

\* the heading of level 6
C28_Witness ==
    /\ headingBuffer(split(state.buffer))
    /\ Len(state.fragments) = 1
    /\ state.fragments[1].type = "heading"
    /\ state.fragments[1].data = [level |-> 6, content |-> <<"a">>]

FragmentTypes ==
    {"heading", "paragraph", "codeblock", "list", "blockquote",
     "thematicBreak", "image"}

\* a value a call can return as a fragment
properFragment(fragment) ==
    /\ fragment.type \in FragmentTypes
    /\ fragment.isComplete \in BOOLEAN
    /\ startsWith(fragment.key, FRAG) \/ startsWith(fragment.key, TEMP)
    /\ fragment.position.start \in Nat /\ fragment.position.end \in Nat
    /\ fragment.position.line >= 1 /\ fragment.position.column >= 1

\* the state a call that returned normally leaves behind
returnedNormally(st) ==
    /\ Len(st.currentFragment) <= 1
    /\ \A i \in 1..Len(getFragments(st)) : properFragment(getFragments(st)[i])
    /\ st.position \in Nat /\ st.line >= 1 /\ st.column >= 1
    /\ isComplete(st) \in BOOLEAN
    /\ getBufferLength(st) = Len(st.buffer)

\* C29: no operation fails: after every sequence of appendChunk,
\* getFragments, finalize and reset calls each call has returned normally,
\* and every input that is not blank resolves to some fragment.
C29_NoOperationFails ==
    /\ returnedNormally(state)
    /\ nonBlankLines(split(state.buffer)) > 0 => getFragments(state) # <<>>

\* lines that match no pattern, resolved to a paragraph
C29_Witness ==
    /\ state.buffer = <<"|", "a", "|", "\n", "#", "x">>
    /\ getFragments(state) # <<>>
    /\ getFragments(state)[1].type = "paragraph"

\* C30: the content hash is fixed-width hex: for murmur3 and for djb2 every
\* input string yields the 8 hexadecimal digits of the unsigned 32-bit value,
\* so every stable key has the same length.
C30_FixedWidthHash ==
    \A i \in 1..Len(getFragments(state)) :
        getFragments(state)[i].isComplete
            => /\ Len(hashOf(getFragments(state)[i].rawContent)) = 8
               /\ Len(getFragments(state)[i].key) = Len(FRAG) + 8

\* the complete fragments of a parser that was fed the one line and finalized
fragmentsOfLine(line) ==
    finalize(appendChunk(Constructed, line, 0), 0).st.fragments

\* C31: different content yields different keys: two complete fragments
\* whose rawContent differ, be it in a single character and be that one
\* outside Latin-1, have different stable keys, whether they are fragments of
\* this parser or of another one.
C31_DifferentContentDifferentKey ==
    \A i \in 1..Len(state.fragments) : \A line \in Lines :
        \A other \in {fragmentsOfLine(line)} : \A j \in 1..Len(other) :
            (/\ state.fragments[i].isComplete
             /\ other[j].isComplete
             /\ other[j].rawContent # state.fragments[i].rawContent)
                => other[j].key # state.fragments[i].key

\* C32: cursor monotonicity: the char offset and the line the parser holds
\* after an appendChunk are never smaller than they were before it, that is,
\* after the appendChunk before; reset() alone lowers them.
C32_CursorMonotonic ==
    [][appended => /\ state'.position >= state.position
                   /\ state'.line >= state.line]_vars

\* C33: on completion the data of a paragraph, list or blockquote is
\* computed anew from the whole rawContent: data.content of a complete block
\* of these types is its rawContent, every accumulated line, and not the line
\* that started the block alone.
C33_CompletedDataRecomputed ==
    \A i \in 1..Len(getFragments(state)) :
        (/\ getFragments(state)[i].isComplete
         /\ getFragments(state)[i].type \in {"paragraph", "list", "blockquote"})
            => getFragments(state)[i].data.content = getFragments(state)[i].rawContent

\* what a caller reads of a fragment apart from times: its type, rawContent,
\* isComplete, and its key where that is a stable one
parsedView(fragments) ==
    [i \in 1..Len(fragments) |->
        [type |-> fragments[i].type,
         rawContent |-> fragments[i].rawContent,
         isComplete |-> fragments[i].isComplete,
         key |-> IF startsWith(fragments[i].key, FRAG)
                 THEN fragments[i].key ELSE <<>>]]

\* the fragments of a parser just constructed after one appendChunk of text
parsedAtOnce(text) == getFragments(appendChunk(Constructed, text, 0).st)

\* C34: the parse is a function of the buffer: after every non-empty
\* appendChunk the types, rawContents, isComplete flags and stable keys of
\* getFragments() are those a parser just constructed returns after one
\* appendChunk of all the chunks since the last reset put together, whatever
\* the chunk boundaries and the finalize calls in between.
C34_ParseIsFunctionOfBuffer ==
    [][appended =>
           \A atOnce \in {parsedAtOnce(state'.buffer)} :
               parsedView(getFragments(state')) = parsedView(atOnce)]_vars

\* a paragraph, a blank line and the line of a list, fed in four chunks
C34_Witness ==
    /\ state.buffer = <<"a", "\n", "\n", "-", " ", "a">>
    /\ Len(state.fragments) = 1
    /\ state.currentFragment # <<>>
    /\ state.currentFragment[1].type = "list"

\* a snapshot at a blank-line boundary: the buffer ends with a terminated
\* blank line and no fragment is open
atBlankLineBoundary(st) ==
    /\ endsWith(st.buffer, NL \o NL)
    /\ st.currentFragment = <<>>

\* every fragment of old is in new at its index with its type, rawContent,
\* isComplete and key
fragmentsKept(old, new) ==
    /\ Len(new) >= Len(old)
    /\ \A i \in 1..Len(old) :
          /\ new[i].type = old[i].type
          /\ new[i].rawContent = old[i].rawContent
          /\ new[i].isComplete = old[i].isComplete
          /\ new[i].key = old[i].key

\* the fragments old are kept by the parser first, which was given one more
\* chunk, and by it after every chunk that follows that one
keptFromHere(old, first, t) ==
    /\ \A new \in {getFragments(first.st)} : fragmentsKept(old, new)
    /\ \A chunk \in Chunks :
          \A new \in {getFragments(appendChunk(first, chunk, t).st)} :
              fragmentsKept(old, new)

\* the same, for every chunk that the parser w may be given, at the time
\* from of its snapshot and at the latest time
stableFrom(w, from) ==
    \A old \in {getFragments(w.st)} :
        \A chunk \in Chunks : \A t \in {from, MaxClock} :
            \A first \in {appendChunk(w, chunk, t)} :
                keptFromHere(old, first, t)

\* C35: stability at blank-line boundaries: if after an appendChunk no
\* fragment is open and the buffer ends with a terminated blank line, every
\* fragment of that snapshot keeps its index, type, rawContent, isComplete and
\* key in the snapshots after the appendChunk calls that follow (here the
\* next two, of any chunks).
C35_StableAtBlankLine ==
    [][(appended /\ atBlankLineBoundary(state'))
          => stableFrom([st |-> state', re |-> IMAGE_REGEX_lastIndex'], now')]_vars

\* an image paragraph closed by a blank line
C35_Witness ==
    /\ state.buffer = IMG \o NL \o NL
    /\ atBlankLineBoundary(state)
    /\ Len(state.fragments) = 1
    /\ state.fragments[1].type = "image"
    /\ state.fragments[1].isComplete

\* the characters of text that are no white space, in order
visible(text) == SelectSeq(text, LAMBDA c : ~isSpace(c))

\* the lines of the rawContent of the fragments
linesOf(fragments) ==
    UNION {{split(fragments[i].rawContent)[k] :
               k \in 1..Len(split(fragments[i].rawContent))} :
           i \in 1..Len(fragments)}

\* every line of lines that is not blank and holds no image markup is a line
\* of the rawContent of one of the fragments
linesWhole(lines, fragments) ==
    \A k \in 1..Len(lines) :
        (~isBlank(lines[k]) /\ imageExec(lines[k], 0) = <<>>)
            => lines[k] \in linesOf(fragments)

contents(records) == [i \in 1..Len(records) |-> records[i].content]

\* C37: the accumulators of a codeblock agree: with strategy 'line', in every
\* state with an open codeblock data.code is the content fields of data.lines
\* joined by '\n', also where the first code line or an interior one is empty.
C37_CodeAccumulatorsAgree ==
    openCodeblock
        => state.currentFragment[1].data.code
               = join(contents(state.currentFragment[1].data.lines))

\* C38: data.hasInlineImages of a paragraph fragment is determined by the
\* text of the fragment alone: it is true exactly when the line that created
\* the fragment, the first line of its rawContent, contains image markup,
\* whatever calls were made before (IMAGE_REGEX carries no state from one
\* call to the next).
C38_HasInlineImagesByTextAlone ==
    \A fragments \in {getFragments(state)} : \A i \in 1..Len(fragments) :
        fragments[i].type = "paragraph"
            => fragments[i].data.hasInlineImages
                   = (imageExec(split(fragments[i].rawContent)[1], 0) # <<>>)

\* C39: the UI bindings keep the parser in sync with the content: once a
\* binding has processed a content value, the buffer of the wrapped parser is
\* that value, be the value an extension of the one before (the new suffix is
\* appended) or not (the parser is reset and given the whole value).
C39_ParserInSync ==
    [][ui'.content # ui.content => state'.buffer = ui'.content]_vars

\* C40: the streaming flag is debounced: isStreaming is true after every
\* append of new content, and once the content has stopped changing (the one
\* step left to take is the firing of the timeout) it becomes false in the
\* end and stays so, for every interleaving of appends, resets and
\* replacements of the content, clean-ups of the effect and firings of the
\* timeout.
C40_StreamingFlagDebounce ==
    /\ [][appended => ui'.isStreaming]_vars
    /\ <>[][TimerFires]_vars => <>[](~ui.isStreaming)

====
